---- MODULE Spec2Model ----
(***************************************************************************)
(* Model of app/views/eventsV2/utils.tsx: getExpandedResults and its       *)
(* helpers (normalizeUserTag, transformAggregate, generateAdditional-      *)
(* Conditions, generateExpandedConditions).                                *)
(*                                                                         *)
(* JavaScript strings are TLC strings (Len, \o and SubSeq act on them).    *)
(* A JavaScript object used as a mapping is a sequence of [key, value]     *)
(* entries with distinct keys, in insertion order.  An optional value      *)
(* (undefined / null) is a sequence of length 0 or 1.                      *)
(***************************************************************************)
EXTENDS Integers, Sequences, FiniteSets, TLC

(* ------------------------------ bounds --------------------------------- *)

\* longest field list of an enumerated input view
MaxFields == 3
\* most entries of an enumerated caller conditions mapping
MaxConds == 2
\* longest enumerated 'user' value handed to normalizeUserTag
MaxLen == 3

(* ------------------------------ strings -------------------------------- *)

CharAt(s, i) == SubSeq(s, i, i)

\* String.prototype.indexOf, 1-based; 0 when c does not occur
IndexOf(s, c) ==
  IF \E i \in 1..Len(s) : CharAt(s, i) = c
  THEN CHOOSE i \in 1..Len(s) :
         CharAt(s, i) = c /\ \A j \in 1..(i - 1) : CharAt(s, j) # c
  ELSE 0

RECURSIVE Split(_, _)
\* String.prototype.split(sep) without a limit: every separator splits
Split(s, sep) ==
  LET i == IndexOf(s, sep)
  IN IF i = 0 THEN <<s>>
     ELSE <<SubSeq(s, 1, i - 1)>> \o Split(SubSeq(s, i + 1, Len(s)), sep)

\* the limit argument of split: the array is cut to its first n parts
Take(seq, n) == SubSeq(seq, 1, IF Len(seq) < n THEN Len(seq) ELSE n)

RECURSIVE Trim(_)
\* String.prototype.trim
Trim(s) ==
  IF Len(s) > 0 /\ CharAt(s, 1) = " " THEN Trim(SubSeq(s, 2, Len(s)))
  ELSE IF Len(s) > 0 /\ CharAt(s, Len(s)) = " " THEN Trim(SubSeq(s, 1, Len(s) - 1))
  ELSE s

Digits == "0123456789"

IsDigit(c) == IndexOf(Digits, c) > 0

\* a JavaScript number of a scope list: an integer or NaN
Number(n) == [nan |-> FALSE, int |-> n]
NaN == [nan |-> TRUE, int |-> 0]

RECURSIVE DigitsValue(_, _)
\* value of the longest run of digits at the head of s, acc the value so far
DigitsValue(s, acc) ==
  IF Len(s) > 0 /\ IsDigit(CharAt(s, 1))
  THEN DigitsValue(SubSeq(s, 2, Len(s)), acc * 10 + (IndexOf(Digits, CharAt(s, 1)) - 1))
  ELSE acc

\* parseInt(value, 10): leading blanks, an optional sign, then digits; NaN
\* when no digit follows
parseInt(value) ==
  LET t == Trim(value)
      signed == Len(t) > 0 /\ CharAt(t, 1) \in {"-", "+"}
      body == IF signed THEN SubSeq(t, 2, Len(t)) ELSE t
  IN IF Len(body) = 0 \/ ~IsDigit(CharAt(body, 1)) THEN NaN
     ELSE IF signed /\ CharAt(t, 1) = "-" THEN Number(0 - DigitsValue(body, 0))
     ELSE Number(DigitsValue(body, 0))

(* ------------------------------ mappings ------------------------------- *)

Keys(m) == {m[i].key : i \in 1..Len(m)}

Has(m, k) == k \in Keys(m)

Get(m, k) == m[CHOOSE i \in 1..Len(m) : m[i].key = k].value

\* m[k] = v: an existing key keeps its place, a new key goes last
Set(m, k, v) ==
  IF Has(m, k)
  THEN [i \in 1..Len(m) |-> IF m[i].key = k THEN [key |-> k, value |-> v] ELSE m[i]]
  ELSE Append(m, [key |-> k, value |-> v])

\* delete m[k]
Delete(m, k) == SelectSeq(m, LAMBDA e : e.key # k)

RECURSIVE Assign(_, _)
\* Object.assign(target, source)
Assign(target, source) ==
  IF Len(source) = 0 THEN target
  ELSE Assign(Set(target, source[1].key, source[1].value), Tail(source))

(* --------------------------- normalizeUserTag -------------------------- *)

normalizeUserTag(key, value) ==
  LET parts == Take(Split(value, ":"), 2)
  IN IF Len(parts) # 2 THEN <<key, parts[1]>>
     ELSE <<key \o "." \o parts[1], parts[2]>>

(* ------------------------ fields and columns --------------------------- *)

\* first j in 0..Len(inner) from which blanks and then a comma follow;
\* Len(inner) + 1 when there is none (the lazy first group of the pattern)
CommaSplit(inner) ==
  LET starts == {j \in 0..Len(inner) :
                   \E k \in (j + 1)..Len(inner) :
                     /\ CharAt(inner, k) = ","
                     /\ \A l \in (j + 1)..(k - 1) : CharAt(inner, l) = " "}
  IN IF starts = {} THEN Len(inner) + 1
     ELSE CHOOSE j \in starts : \A j2 \in starts : j <= j2

\* explodeFieldString: name(arg) or name(arg, refinement) is a function
\* column [name, arg, refinement], anything else a field column.  The
\* sequence 'function' is 1-based here: function[1] is the source's
\* function[0] (the name), function[2] its function[1] (the argument).
explodeFieldString(field) ==
  LET open == IndexOf(field, "(")
      inner == SubSeq(field, open + 1, Len(field) - 1)
      j == CommaSplit(inner)
      comma == IndexOf(SubSeq(inner, j + 1, Len(inner)), ",") + j
  IN IF open >= 2 /\ Len(field) > open /\ CharAt(field, Len(field)) = ")"
     THEN [kind |-> "function",
           function |-> <<SubSeq(field, 1, open - 1),
                          IF j > Len(inner) THEN inner ELSE SubSeq(inner, 1, j),
                          IF j > Len(inner) THEN ""
                          ELSE Trim(SubSeq(inner, comma + 1, Len(inner)))>>]
     ELSE [kind |-> "field", field |-> field]

\* the field string of a column of kind 'field'
generateFieldAsString(column) == column.field

\* getAggregateAlias: a bare field is its own alias; name(arg) is name_arg
getAggregateAlias(field) ==
  LET column == explodeFieldString(field)
  IN IF column.kind = "field" THEN field
     ELSE IF column.function[2] = "" THEN column.function[1]
     ELSE column.function[1] \o "_" \o column.function[2]

\* A map between aggregate function names and its un-aggregated form
TRANSFORM_AGGREGATES ==
  << [key |-> "last_seen", value |-> "timestamp"],
     [key |-> "latest_event", value |-> ""],
     [key |-> "apdex", value |-> ""],
     [key |-> "impact", value |-> ""],
     [key |-> "user_misery", value |-> ""],
     [key |-> "failure_rate", value |-> ""] >>

\* /^p\d+$/.test(fieldName)
IsPercentileName(fieldName) ==
  /\ Len(fieldName) >= 2
  /\ CharAt(fieldName, 1) = "p"
  /\ \A i \in 2..Len(fieldName) : IsDigit(CharAt(fieldName, i))

\* variant: the percentile rule left out, the table alone decides
transformAggregateTableOnly(fieldName) ==
  IF Has(TRANSFORM_AGGREGATES, fieldName) THEN Get(TRANSFORM_AGGREGATES, fieldName)
  ELSE ""

transformAggregate(fieldName) ==
  IF IsPercentileName(fieldName) THEN "transaction.duration"
  ELSE IF Has(TRANSFORM_AGGREGATES, fieldName) THEN Get(TRANSFORM_AGGREGATES, fieldName)
  ELSE ""

isTransformAggregate(fieldName) == transformAggregate(fieldName) # ""

\* AGGREGATIONS[name] ?? {} with parameters defaulting to []
ParametersOf(aggregations, name) ==
  IF Has(aggregations, name) THEN Get(aggregations, name).parameters ELSE <<>>

(* ------------------------------ EventView ------------------------------ *)

\* EventView.clone: a new object with the same contents
clone(view) == view

\* EventView.withUpdatedColumn: a new view whose field at columnIndex is
\* the bare column, with no explicit width
withUpdatedColumn(view, columnIndex, updatedColumn) ==
  [view EXCEPT !.fields[columnIndex] =
     [field |-> generateFieldAsString(updatedColumn), width |-> <<>>]]

\* EventView.withDeletedColumn: a new view without the field at columnIndex
\* (an index past the end removes nothing, as Array.splice)
withDeletedColumn(view, columnIndex) ==
  LET keep == SelectSeq([i \in 1..Len(view.fields) |-> i], LAMBDA i : i # columnIndex)
  IN [view EXCEPT !.fields = [k \in 1..Len(keep) |-> view.fields[keep[k]]]]

(* -------------------------- getExpandedResults ------------------------- *)

\* variant: the scan misses the first field
FindAggregateFieldsFromSecond(fields) ==
  LET all == [i \in 1..Len(fields) |-> i]
  IN SelectSeq(all, LAMBDA i :
       i > 1 /\ explodeFieldString(fields[i].field).kind = "function")

\* Find aggregate fields and flag them for updates.
FindAggregateFields(fields) ==
  LET all == [i \in 1..Len(fields) |-> i]
  IN SelectSeq(all, LAMBDA i : explodeFieldString(fields[i].field).kind = "function")

\* One pass of the update loop for currentField: what happens to the field
\* (op "replace" with the bare field name, "delete", or "keep") and the
\* name added to transformedFields ("" for none).
UpdateOutcome(currentField, transformedFields, aggregations) ==
  LET exploded == explodeFieldString(currentField.field)
      isFunction == exploded.kind = "function"
      fieldNameAlias ==
        IF isFunction /\ isTransformAggregate(exploded.function[1])
        THEN exploded.function[1]
        ELSE IF ~isFunction /\ exploded.field # "id" THEN exploded.field
        ELSE ""
      nextFieldName == transformAggregate(fieldNameAlias)
      field == exploded.function[2]
      parameters == ParametersOf(aggregations, exploded.function[1])
  IN IF isTransformAggregate(fieldNameAlias)
     THEN IF nextFieldName = "" \/ nextFieldName \in transformedFields
          THEN [op |-> "delete", field |-> ""]
          ELSE [op |-> "replace", field |-> nextFieldName]
     ELSE IF \/ (~isFunction /\ exploded.field \in transformedFields)
             \/ (isFunction /\ exploded.function[2] \in transformedFields)
     THEN [op |-> "delete", field |-> ""]
     ELSE IF isFunction
     THEN IF exploded.function[1] = "count" \/ field = "id"
          THEN [op |-> "delete", field |-> ""]
          ELSE IF \/ field = ""
                  \/ /\ Len(parameters) > 0
                     /\ \A p \in 1..Len(parameters) : parameters[p].kind # "column"
          THEN [op |-> "delete", field |-> ""]
          ELSE [op |-> "replace", field |-> field]
     ELSE [op |-> "keep", field |-> ""]

\* fieldsToDelete.reverse()
Reverse(seq) == [i \in 1..Len(seq) |-> seq[Len(seq) + 1 - i]]

\* variant: the marked columns deleted in ascending order
DeletionOrderAscending(fieldsToDelete) == fieldsToDelete

\* the order in which the columns marked for deletion are deleted
DeletionOrder(fieldsToDelete) == Reverse(fieldsToDelete)

\* variant: nextView is the given view itself, no clone
AliasView(h, ref) == [heap |-> h, ref |-> ref]

\* let nextView = eventView.clone(): the heap with the clone allocated, and
\* the reference to it
CloneView(h, ref) == [heap |-> Append(h, clone(h[ref])), ref |-> Len(h) + 1]

(* --------------------- generateAdditionalConditions -------------------- *)

\* Object.values(URL_PARAM): the reserved scoping parameter names
specialKeys == {"start", "end", "utc", "statsPeriod", "project", "environment"}

\* getUtcDateString: the canonical UTC form, without a zone suffix
getUtcDateString(value) ==
  IF Len(value) > 0 /\ CharAt(value, Len(value)) = "Z"
  THEN SubSeq(value, 1, Len(value) - 1)
  ELSE value

\* /[\s\(\)\\"]/.test(s)
NeedsQuote(s) == \E i \in 1..Len(s) : CharAt(s, i) \in {" ", "(", ")", "\\", "\""}

\* the condition value of a row attribute: '' for null, untrimmed when it
\* will be quoted, trimmed otherwise
NextValue(value) ==
  IF value = <<>> THEN ""
  ELSE IF NeedsQuote(Trim(value[1])) THEN value[1]
  ELSE Trim(value[1])

\* dataRow.tags.findIndex(item => item.key === dataKey), 0 for -1
TagIndex(tags, dataKey) ==
  IF \E i \in 1..Len(tags) : tags[i].key = dataKey
  THEN CHOOSE i \in 1..Len(tags) :
         tags[i].key = dataKey /\ \A j \in 1..(i - 1) : tags[j].key # dataKey
  ELSE 0

\* the attribute half of one pass of the loop over the fields
AttributeCondition(conditions, column, dataKey, row) ==
  IF ~Has(row.attrs, dataKey) THEN conditions
  ELSE LET nextValue == NextValue(Get(row.attrs, dataKey))
           normalized == normalizeUserTag(dataKey, nextValue)
       IN IF column.field = "timestamp"
          THEN Set(conditions, column.field, getUtcDateString(nextValue))
          ELSE IF column.field = "user"
          THEN Set(conditions, normalized[1], normalized[2])
          ELSE Set(conditions, column.field, nextValue)

\* the tag half of one pass of the loop over the fields
TagCondition(conditions, column, dataKey, row) ==
  IF row.tags = <<>> THEN conditions
  ELSE LET tags == row.tags[1]
           tagIndex == TagIndex(tags, dataKey)
           key == IF column.field \in specialKeys
                  THEN "tags[" \o column.field \o "]"
                  ELSE column.field
           tagValue == tags[tagIndex].value
           normalized == normalizeUserTag(key, tagValue)
       IN IF tagIndex = 0 THEN conditions
          ELSE IF key = "user"
          THEN Set(Delete(conditions, key), normalized[1], normalized[2])
          ELSE Set(conditions, key, tagValue)

\* one pass of the loop over the fields
FieldConditions(conditions, field, row) ==
  LET column == explodeFieldString(field.field)
      dataKey == getAggregateAlias(field.field)
  IN IF column.kind = "function" THEN conditions
     ELSE TagCondition(AttributeCondition(conditions, column, dataKey, row),
                       column, dataKey, row)

RECURSIVE FieldsConditions(_, _, _)
FieldsConditions(conditions, fields, row) ==
  IF Len(fields) = 0 THEN conditions
  ELSE FieldsConditions(FieldConditions(conditions, fields[1], row), Tail(fields), row)

generateAdditionalConditions(view, dataRow) ==
  IF dataRow = <<>> THEN <<>>
  ELSE FieldsConditions(<<>>, view.fields, dataRow[1])

(* ---------------------- generateExpandedConditions --------------------- *)

RECURSIVE tokenizeSearch(_)
\* tokenizeSearch: the filter string is its list of key:value tokens; a
\* repeated key collects its values in one list, a token without a colon
\* is ignored
tokenizeSearch(query) ==
  IF Len(query) = 0 THEN <<>>
  ELSE LET rest == tokenizeSearch(SubSeq(query, 1, Len(query) - 1))
           token == query[Len(query)]
           i == IndexOf(token, ":")
           key == SubSeq(token, 1, i - 1)
           value == SubSeq(token, i + 1, Len(token))
       IN IF i = 0 THEN rest
          ELSE IF Has(rest, key) THEN Set(rest, key, Append(Get(rest, key), value))
          ELSE Set(rest, key, <<value>>)

RECURSIVE stringifyQueryObject(_)
\* stringifyQueryObject: one key:value token per value, key by key
stringifyQueryObject(results) ==
  IF Len(results) = 0 THEN <<>>
  ELSE [i \in 1..Len(results[1].value) |-> results[1].key \o ":" \o results[1].value[i]]
         \o stringifyQueryObject(Tail(results))

\* variant: the aggregate keys of the filter are kept
KeepAggregates(parsedQuery) == parsedQuery

\* Remove any aggregates from the search conditions.
RemoveAggregates(parsedQuery) ==
  SelectSeq(parsedQuery, LAMBDA e : explodeFieldString(e.key).kind # "function")

\* Object.assign({}, additionalConditions, generateAdditionalConditions(...))
MergeConditions(additionalConditions, generated) ==
  Assign(Assign(<<>>, additionalConditions), generated)

\* variant: a project id already in the list is not appended again
AppendProjectOnce(project, value) ==
  IF \E i \in 1..Len(project) : project[i] = parseInt(value)
  THEN project
  ELSE Append(project, parseInt(value))

\* [...eventView.project, parseInt(value, 10)]
AppendProject(project, value) == Append(project, parseInt(value))

\* [...eventView.environment, value] unless the list includes value
AppendEnvironment(environment, value) ==
  IF \E i \in 1..Len(environment) : environment[i] = value
  THEN environment
  ELSE Append(environment, value)

\* One pass of the loop over the conditions: the view and the parsed query
\* after the entry [key, value]
AddCondition(view, parsedQuery, key, value) ==
  LET normalized == normalizeUserTag(key, value)
  IN IF key = "project.id"
     THEN [view |-> [view EXCEPT !.project = AppendProject(view.project, value)],
           parsedQuery |-> parsedQuery]
     ELSE IF key = "environment"
     THEN [view |-> [view EXCEPT !.environment = AppendEnvironment(view.environment, value)],
           parsedQuery |-> parsedQuery]
     ELSE IF key = "user"
     THEN [view |-> view,
           parsedQuery |-> Set(parsedQuery, normalized[1], <<normalized[2]>>)]
     ELSE IF explodeFieldString(key).kind = "function"
     THEN [view |-> view, parsedQuery |-> parsedQuery]
     ELSE [view |-> view, parsedQuery |-> Set(parsedQuery, key, <<value>>)]

(* ------------------------------- state --------------------------------- *)

VARIABLES
  heap,                  \* the EventView objects allocated so far, by reference
  eventView,             \* reference of the view getExpandedResults was given
  nextView,              \* reference held by the local nextView
  inputView,             \* contents of the given view when the call began
  additionalConditions,  \* the caller's conditions
  dataRow,               \* the optional data row: <<>> or <<row>>
  aggregations,          \* the AGGREGATIONS table
  fieldsToUpdate,
  transformedFields,
  fieldsToDelete,
  cursor,                \* position of the running forEach / for-in loop
  generated,             \* result of generateAdditionalConditions
  conditions,            \* the merged conditions of generateExpandedConditions
  parsedQuery,
  pc,
  reapplied,             \* the returned view has been expanded again
  userValue,             \* the value handed to normalizeUserTag on its own
  normalized             \* what normalizeUserTag returned for it

vars == <<heap, eventView, nextView, inputView, additionalConditions, dataRow,
          aggregations, fieldsToUpdate, transformedFields, fieldsToDelete, cursor,
          generated, conditions, parsedQuery, pc, reapplied, userValue, normalized>>

(* ------------------------------- inputs --------------------------------- *)

RECURSIVE SeqsUpTo(_, _)
\* the sequences over S of length at most n
SeqsUpTo(S, n) ==
  IF n = 0 THEN {<<>>}
  ELSE LET shorter == SeqsUpTo(S, n - 1)
       IN shorter \cup {Append(q, x) : q \in shorter, x \in S}

RECURSIVE StringsUpTo(_, _)
\* the strings over the characters A of length at most n
StringsUpTo(A, n) ==
  IF n = 0 THEN {""}
  ELSE LET shorter == StringsUpTo(A, n - 1)
       IN shorter \cup {q \o c : q \in shorter, c \in A}

Field(name) == [field |-> name, width |-> <<>>]

FieldPool ==
  { [field |-> "title", width |-> <<120>>],
    Field("transaction.duration"),
    Field("count()"),
    Field("p50()"),
    Field("p95()"),
    Field("avg(transaction.duration)"),
    Field("last_seen()"),
    Field("apdex(300)"),
    Field("latest_event(title)") }

Column == [kind |-> "column"]
Value == [kind |-> "value"]

\* the schema's table, and a table without entries
SchemaAggregations ==
  << [key |-> "count", value |-> [parameters |-> <<>>]],
     [key |-> "avg", value |-> [parameters |-> <<Column>>]],
     [key |-> "last_seen", value |-> [parameters |-> <<>>]],
     [key |-> "latest_event", value |-> [parameters |-> <<>>]],
     [key |-> "p50", value |-> [parameters |-> <<>>]],
     [key |-> "p95", value |-> [parameters |-> <<>>]],
     [key |-> "percentile", value |-> [parameters |-> <<Column, Value>>]],
     [key |-> "apdex", value |-> [parameters |-> <<Value>>]] >>

AggregationTables == {SchemaAggregations, <<>>}

View(fields, query, project, environment) ==
  [fields |-> fields, query |-> query, project |-> project, environment |-> environment]

\* views for the cases about conditions
ConditionViews ==
  { View(<<Field("user")>>, <<>>, <<Number(1)>>, <<"prod">>),
    View(<<Field("title"), Field("transaction.duration")>>,
         <<"count():>5", "title:a", "title:b">>, <<>>, <<>>),
    View(<<Field("user"), Field("count()"), Field("title")>>,
         <<"user.id:9", "p95():>300">>, <<>>, <<"dev">>),
    View(<<Field("environment"), Field("project.id"), Field("max(timestamp)")>>,
         <<"title:a">>, <<Number(2)>>, <<>>) }

Entry(k, v) == [key |-> k, value |-> v]

Row(attrs, tags) == [attrs |-> attrs, tags |-> tags]

DataRows ==
  { <<>>,
    <<Row(<<Entry("user", <<"bob">>)>>, <<>>)>>,
    <<Row(<<>>, << <<Entry("user", "id:42")>> >>)>>,
    <<Row(<<Entry("user", <<"bob">>)>>, << <<Entry("user", "id:42")>> >>)>>,
    <<Row(<<Entry("user", <<"email:foo">>)>>, << <<Entry("user", "id:42")>> >>)>>,
    <<Row(<<Entry("title", <<" foo ">>), Entry("environment", <<"prod">>),
            Entry("project.id", <<"2">>), Entry("timestamp", <<"2020-01-01T00:00:00Z">>)>>,
          << <<Entry("environment", "staging"), Entry("title", "bar")>> >>)>>,
    <<Row(<<Entry("title", <<" foo (bar)">>), Entry("user", <<>>)>>, << <<>> >>)>> }

ConditionPool ==
  { Entry("project.id", "1"),
    Entry("project.id", "x"),
    Entry("environment", "prod"),
    Entry("environment", "staging"),
    Entry("user", "id:7"),
    Entry("user", "count():1"),
    Entry("count()", "5"),
    Entry("title", "x") }

\* caller conditions: an object has each key once
ConditionMaps ==
  {m \in SeqsUpTo(ConditionPool, MaxConds) :
     \A i, j \in 1..Len(m) : i # j => m[i].key # m[j].key}

Alphabet == {"a", "b", ":"}

(* -------------------------------- Init ---------------------------------- *)

\* locals before the call has run
Idle ==
  /\ eventView = 1
  /\ nextView = eventView
  /\ inputView = heap[eventView]
  /\ fieldsToUpdate = <<>>
  /\ transformedFields = {}
  /\ fieldsToDelete = <<>>
  /\ cursor = 1
  /\ generated = <<>>
  /\ conditions = <<>>
  /\ parsedQuery = <<>>
  /\ reapplied = FALSE
  /\ normalized = <<>>

\* any field list, no conditions, no row
InitFields ==
  /\ \E fields \in SeqsUpTo(FieldPool, MaxFields) \ {<<>>} :
       heap = <<View(fields, <<"title:a">>, <<>>, <<>>)>>
  /\ additionalConditions = <<>>
  /\ dataRow = <<>>
  /\ aggregations \in AggregationTables
  /\ userValue = ""
  /\ pc = "start"
  /\ Idle

\* a few views, any conditions and any row
InitConditions ==
  /\ \E view \in ConditionViews : heap = <<view>>
  /\ additionalConditions \in ConditionMaps
  /\ dataRow \in DataRows
  /\ aggregations = SchemaAggregations
  /\ userValue = ""
  /\ pc = "start"
  /\ Idle

\* normalizeUserTag on its own, for any value
InitNormalize ==
  /\ heap = <<View(<<Field("user")>>, <<>>, <<>>, <<>>)>>
  /\ additionalConditions = <<>>
  /\ dataRow = <<>>
  /\ aggregations = SchemaAggregations
  /\ userValue \in StringsUpTo(Alphabet, MaxLen)
  /\ pc = "normalize"
  /\ Idle

Init == InitFields \/ InitConditions \/ InitNormalize

(* ------------------------------- actions -------------------------------- *)

\* lines 209-219: flag the aggregate fields, clone the view
FindAggregates ==
  /\ pc = "start"
  /\ fieldsToUpdate' = FindAggregateFields(heap[eventView].fields)
  /\ heap' = CloneView(heap, eventView).heap
  /\ nextView' = CloneView(heap, eventView).ref
  /\ transformedFields' = {}
  /\ fieldsToDelete' = <<>>
  /\ cursor' = 1
  /\ pc' = "update"
  /\ UNCHANGED <<eventView, inputView, additionalConditions, dataRow, aggregations,
                 generated, conditions, parsedQuery, reapplied, userValue, normalized>>

\* lines 222-292: one pass of fieldsToUpdate.forEach
UpdateField ==
  /\ pc = "update"
  /\ cursor <= Len(fieldsToUpdate)
  /\ LET indexToUpdate == fieldsToUpdate[cursor]
         outcome == UpdateOutcome(heap[nextView].fields[indexToUpdate],
                                  transformedFields, aggregations)
         updatedColumn == [kind |-> "field", field |-> outcome.field]
     IN /\ heap' = IF outcome.op = "replace"
                   THEN Append(heap, withUpdatedColumn(heap[nextView], indexToUpdate,
                                                       updatedColumn))
                   ELSE heap
        /\ nextView' = IF outcome.op = "replace" THEN Len(heap) + 1 ELSE nextView
        /\ transformedFields' = IF outcome.op = "replace"
                                THEN transformedFields \cup {outcome.field}
                                ELSE transformedFields
        /\ fieldsToDelete' = IF outcome.op = "delete"
                             THEN Append(fieldsToDelete, indexToUpdate)
                             ELSE fieldsToDelete
  /\ cursor' = cursor + 1
  /\ UNCHANGED <<eventView, inputView, additionalConditions, dataRow, aggregations,
                 fieldsToUpdate, generated, conditions, parsedQuery, pc, reapplied,
                 userValue, normalized>>

\* line 295: fieldsToDelete.reverse(), once the update loop has ended
BeginDeleting ==
  /\ pc = "update"
  /\ cursor > Len(fieldsToUpdate)
  /\ fieldsToDelete' = DeletionOrder(fieldsToDelete)
  /\ cursor' = 1
  /\ pc' = "delete"
  /\ UNCHANGED <<heap, eventView, nextView, inputView, additionalConditions, dataRow,
                 aggregations, fieldsToUpdate, transformedFields, generated, conditions,
                 parsedQuery, reapplied, userValue, normalized>>

\* lines 295-297: one pass of the deleting forEach
DeleteColumn ==
  /\ pc = "delete"
  /\ cursor <= Len(fieldsToDelete)
  /\ heap' = Append(heap, withDeletedColumn(heap[nextView], fieldsToDelete[cursor]))
  /\ nextView' = Len(heap) + 1
  /\ cursor' = cursor + 1
  /\ UNCHANGED <<eventView, inputView, additionalConditions, dataRow, aggregations,
                 fieldsToUpdate, transformedFields, fieldsToDelete, generated, conditions,
                 parsedQuery, pc, reapplied, userValue, normalized>>

\* lines 299, 390-405: generateExpandedConditions is entered with nextView;
\* the filter is parsed and stripped, the conditions are generated and merged
BeginConditions ==
  /\ pc = "delete"
  /\ cursor > Len(fieldsToDelete)
  /\ parsedQuery' = RemoveAggregates(tokenizeSearch(heap[nextView].query))
  /\ generated' = generateAdditionalConditions(heap[nextView], dataRow)
  /\ conditions' = MergeConditions(additionalConditions, generated')
  /\ cursor' = 1
  /\ pc' = "merge"
  /\ UNCHANGED <<heap, eventView, nextView, inputView, additionalConditions, dataRow,
                 aggregations, fieldsToUpdate, transformedFields, fieldsToDelete,
                 reapplied, userValue, normalized>>

\* lines 408-431: one pass of the loop over the conditions
ApplyCondition ==
  /\ pc = "merge"
  /\ cursor <= Len(conditions)
  /\ LET after == AddCondition(heap[nextView], parsedQuery,
                               conditions[cursor].key, conditions[cursor].value)
     IN /\ heap' = [heap EXCEPT ![nextView] = after.view]
        /\ parsedQuery' = after.parsedQuery
  /\ cursor' = cursor + 1
  /\ UNCHANGED <<eventView, nextView, inputView, additionalConditions, dataRow,
                 aggregations, fieldsToUpdate, transformedFields, fieldsToDelete,
                 generated, conditions, pc, reapplied, userValue, normalized>>

\* lines 433, 299-301: the filter is serialized, stored on nextView, and
\* nextView is returned
Return ==
  /\ pc = "merge"
  /\ cursor > Len(conditions)
  /\ heap' = [heap EXCEPT ![nextView].query = stringifyQueryObject(parsedQuery)]
  /\ pc' = "done"
  /\ UNCHANGED <<eventView, nextView, inputView, additionalConditions, dataRow,
                 aggregations, fieldsToUpdate, transformedFields, fieldsToDelete, cursor,
                 generated, conditions, parsedQuery, reapplied, userValue, normalized>>

\* the caller expands the returned view again, with the same conditions and row
Reapply ==
  /\ pc = "done"
  /\ ~reapplied
  /\ reapplied' = TRUE
  /\ eventView' = nextView
  /\ inputView' = heap[nextView]
  /\ pc' = "start"
  /\ UNCHANGED <<heap, nextView, additionalConditions, dataRow, aggregations,
                 fieldsToUpdate, transformedFields, fieldsToDelete, cursor, generated,
                 conditions, parsedQuery, userValue, normalized>>

\* lines 47-54: normalizeUserTag('user', value)
NormalizeUserTag ==
  /\ pc = "normalize"
  /\ normalized' = normalizeUserTag("user", userValue)
  /\ pc' = "normalized"
  /\ UNCHANGED <<heap, eventView, nextView, inputView, additionalConditions, dataRow,
                 aggregations, fieldsToUpdate, transformedFields, fieldsToDelete, cursor,
                 generated, conditions, parsedQuery, reapplied, userValue>>

Next ==
  \/ FindAggregates
  \/ UpdateField
  \/ BeginDeleting
  \/ DeleteColumn
  \/ BeginConditions
  \/ ApplyCondition
  \/ Return
  \/ Reapply
  \/ NormalizeUserTag

Spec == Init /\ [][Next]_vars

(* ------------------------------ properties ----------------------------- *)

\* the view getExpandedResults returns
Result == heap[nextView]

IsAggregate(field) == explodeFieldString(field.field).kind = "function"

AllBare(fields) == \A i \in 1..Len(fields) : ~IsAggregate(fields[i])

\* how often x occurs in seq
Count(seq, x) == Cardinality({i \in 1..Len(seq) : seq[i] = x})

\* how often a field named name occurs in fields
CountNamed(fields, name) == Cardinality({i \in 1..Len(fields) : fields[i].field = name})

\* the indices marked for deletion
Marked == {fieldsToDelete[k] : k \in 1..Len(fieldsToDelete)}

\* C1: the returned field list holds no aggregate field, it is no longer
\* than the given one, and every bare field of the given view is still in
\* it, unchanged, as often as it was given.
C1_NoAggregateLeft ==
  pc = "done" =>
    /\ AllBare(Result.fields)
    /\ Len(Result.fields) <= Len(inputView.fields)
    /\ \A i \in 1..Len(inputView.fields) :
         ~IsAggregate(inputView.fields[i]) =>
           Count(Result.fields, inputView.fields[i])
             >= Count(inputView.fields, inputView.fields[i])

\* a call that was given bare and aggregate fields, replaced one aggregate
\* and deleted another
C1_Witness ==
  /\ pc = "done"
  /\ ~reapplied
  /\ \E i \in 1..Len(inputView.fields) : ~IsAggregate(inputView.fields[i])
  /\ Marked # {}
  /\ transformedFields # {}
  /\ IsAggregate(inputView.fields[1])

\* C2: at every point of the call the given view holds what it held when
\* the call began: fields, filter, project list and environment list.
C2_InputUntouched == heap[eventView] = inputView

\* a call that returned a view differing from the given one in all four parts
C2_Witness ==
  /\ pc = "done"
  /\ Result.fields # inputView.fields
  /\ Result.query # inputView.query
  /\ Result.project # inputView.project
  /\ Result.environment # inputView.environment
  /\ dataRow # <<>>

\* the entries of a parsed filter whose key is no aggregate-function reference
NonAggregateEntries(parsed) ==
  SelectSeq(parsed, LAMBDA e : explodeFieldString(e.key).kind = "field")

\* a call with bare fields only, no data row and no caller conditions
BareCall ==
  /\ pc = "done"
  /\ AllBare(inputView.fields)
  /\ dataRow = <<>>
  /\ additionalConditions = <<>>

\* C3 as stated: with bare fields only and no data row (and no caller
\* conditions) the returned view has the given field list and the given
\* filter entries, and a second call returns what the first returned.
C3_FiltersUnchanged ==
  BareCall =>
    /\ Result.fields = inputView.fields
    /\ tokenizeSearch(Result.query) = tokenizeSearch(inputView.query)
    /\ reapplied => Result = inputView

\* C3 amended: with bare fields only, no data row and no caller conditions
\* the returned view has the given field list and scope lists, and its
\* filter holds the given filter's entries except those whose key is an
\* aggregate-function reference; a second call returns what the first
\* returned.
C3_FiltersWithoutAggregates ==
  BareCall =>
    /\ Result.fields = inputView.fields
    /\ Result.project = inputView.project
    /\ Result.environment = inputView.environment
    /\ tokenizeSearch(Result.query) = NonAggregateEntries(tokenizeSearch(inputView.query))
    /\ reapplied => Result = inputView

\* a second call on the result of a first call that dropped an aggregate
\* key from the filter of a view with bare fields only
C3_Witness ==
  /\ BareCall
  /\ reapplied
  /\ Len(inputView.fields) >= 2
  /\ tokenizeSearch(heap[1].query) # NonAggregateEntries(tokenizeSearch(heap[1].query))
  /\ AllBare(heap[1].fields)

\* p followed by digits only
MatchesPDigits(name) ==
  /\ Len(name) >= 2
  /\ SubSeq(name, 1, 1) = "p"
  /\ \A i \in 2..Len(name) : SubSeq(name, i, i) \in {"0", "1", "2", "3", "4", "5", "6", "7", "8", "9"}

IsPercentileField(field) ==
  /\ IsAggregate(field)
  /\ MatchesPDigits(explodeFieldString(field.field).function[1])

HasPercentile(fields) == \E i \in 1..Len(fields) : IsPercentileField(fields[i])

BareDurations(fields) ==
  Cardinality({i \in 1..Len(fields) :
                 ~IsAggregate(fields[i]) /\ fields[i].field = "transaction.duration"})

\* C4 as stated: when a percentile field was given, beside other aggregates
\* and at most one bare 'transaction.duration', the returned field list
\* holds no percentile field and 'transaction.duration' at most once.
C4_DurationAtMostOnce ==
  ( /\ pc = "done"
    /\ HasPercentile(inputView.fields)
    /\ BareDurations(inputView.fields) <= 1 ) =>
      /\ ~HasPercentile(Result.fields)
      /\ CountNamed(Result.fields, "transaction.duration") <= 1

\* C4 amended: no percentile field is left, and the aggregate fields of the
\* given view together leave at most one 'transaction.duration' (exactly
\* one when a percentile field was given), beside the bare
\* 'transaction.duration' fields of the given view, which all stay.
C4_OneDurationFromAggregates ==
  pc = "done" =>
    /\ ~HasPercentile(Result.fields)
    /\ CountNamed(Result.fields, "transaction.duration")
         <= BareDurations(inputView.fields) + 1
    /\ HasPercentile(inputView.fields) =>
         CountNamed(Result.fields, "transaction.duration")
           = BareDurations(inputView.fields) + 1

\* two percentile fields and a bare 'transaction.duration' were given, two
\* 'transaction.duration' fields are returned
C4_Witness ==
  /\ pc = "done"
  /\ Cardinality({i \in 1..Len(inputView.fields) : IsPercentileField(inputView.fields[i])}) >= 2
  /\ BareDurations(inputView.fields) = 1
  /\ CountNamed(Result.fields, "transaction.duration") = 2

\* C5: normalizeUserTag('user', value) splits value at its first ':' into
\* 'user.<text before it>' and the text after it, and returns 'user' with
\* the value when there is no ':'.
C5_SplitAtFirstColon ==
  pc = "normalized" =>
    LET i == IndexOf(userValue, ":")
    IN normalized =
         IF i = 0 THEN <<"user", userValue>>
         ELSE <<"user." \o SubSeq(userValue, 1, i - 1),
                SubSeq(userValue, i + 1, Len(userValue))>>

\* key is 'user' or starts with 'user.'
IsUserKey(key) == key = "user" \/ (Len(key) > 5 /\ SubSeq(key, 1, 5) = "user.")

\* the row carries the tag user = id:42
HasUserTag ==
  /\ dataRow # <<>>
  /\ dataRow[1].tags # <<>>
  /\ TagIndex(dataRow[1].tags[1], "user") > 0
  /\ dataRow[1].tags[1][TagIndex(dataRow[1].tags[1], "user")].value = "id:42"

\* C6: with a bare 'user' field and a row tag user = id:42, the generated
\* conditions hold user.id = 42 and no other user condition.
C6_OnlyTagUserCondition ==
  ( /\ pc \in {"merge", "done"}
    /\ HasUserTag
    /\ \E i \in 1..Len(Result.fields) : Result.fields[i].field = "user" ) =>
      /\ Has(generated, "user.id")
      /\ Get(generated, "user.id") = "42"
      /\ \A k \in Keys(generated) : IsUserKey(k) => k = "user.id"

\* the bare field that stands for the aggregate field when it is replaced
Replacement(field) ==
  LET column == explodeFieldString(field.field)
  IN [field |-> IF transformAggregate(column.function[1]) # ""
                THEN transformAggregate(column.function[1])
                ELSE column.function[2],
      width |-> <<>>]

\* the given fields at the unmarked indices, in their order, aggregates replaced
Survivors ==
  LET unmarked == SelectSeq([i \in 1..Len(inputView.fields) |-> i],
                            LAMBDA i : i \notin Marked)
  IN [k \in 1..Len(unmarked) |->
        IF IsAggregate(inputView.fields[unmarked[k]])
        THEN Replacement(inputView.fields[unmarked[k]])
        ELSE inputView.fields[unmarked[k]]]

\* C7: the returned field list is the given list without the fields at the
\* marked indices, the others in their original order (kept or replaced).
C7_ExactlyMarkedDeleted == pc = "done" => Result.fields = Survivors

\* several columns were deleted around one that stays
C7_Witness ==
  /\ pc = "done"
  /\ Cardinality(Marked) >= 2
  /\ \E i \in 1..Len(inputView.fields) :
       /\ i \notin Marked
       /\ \E j \in Marked : j < i
       /\ \E j \in Marked : j > i

\* the function name is in the table with the empty string
MapsToNothing(field) ==
  /\ IsAggregate(field)
  /\ \E k \in 1..Len(TRANSFORM_AGGREGATES) :
       /\ TRANSFORM_AGGREGATES[k].key = explodeFieldString(field.field).function[1]
       /\ TRANSFORM_AGGREGATES[k].value = ""

\* C8: every aggregate field whose function name the table maps to nothing
\* is marked for deletion, whatever its arguments and the AGGREGATIONS table.
C8_NothingStandsInPlace ==
  pc = "done" =>
    \A i \in 1..Len(inputView.fields) :
      MapsToNothing(inputView.fields[i]) => i \in Marked

NoDuplicates(seq) == \A i, j \in 1..Len(seq) : seq[i] = seq[j] => i = j

\* C9: a pass of the conditions loop over a 'project.id' entry appends the
\* parsed value to the project list, even when it is there already; over an
\* 'environment' entry it appends the value to the environment list unless
\* it is there already, so a list without duplicates stays so; neither
\* touches the parsed filter or the other list.
C9_ScopeKeysRouted ==
  [][ (pc = "merge" /\ cursor <= Len(conditions)) =>
        LET key == conditions[cursor].key
            value == conditions[cursor].value
            before == heap[nextView]
            after == heap'[nextView]
        IN /\ key = "project.id" =>
                /\ after.project = Append(before.project, parseInt(value))
                /\ after.environment = before.environment
                /\ parsedQuery' = parsedQuery
           /\ key = "environment" =>
                /\ after.environment =
                     IF Count(before.environment, value) > 0
                     THEN before.environment
                     ELSE Append(before.environment, value)
                /\ NoDuplicates(before.environment) => NoDuplicates(after.environment)
                /\ after.project = before.project
                /\ parsedQuery' = parsedQuery ]_vars

\* a 'project.id' entry has just added an id the list already held, and an
\* 'environment' entry was met with its value in the list
C9_Witness ==
  /\ pc = "merge"
  /\ cursor = 3
  /\ conditions[1].key = "environment"
  /\ conditions[2].key = "project.id"
  /\ Count(inputView.environment, conditions[1].value) = 1
  /\ Result.environment = inputView.environment
  /\ Count(Result.project, parseInt(conditions[2].value)) = 2

\* C10: the returned filter has no entry whose key is an aggregate-function
\* reference.
C10_NoAggregateKey ==
  pc = "done" =>
    \A k \in Keys(tokenizeSearch(Result.query)) :
      explodeFieldString(k).kind # "function"

====
